---- MODULE Spec2Model ----
(***************************************************************************)
(* A model of the codfreq core of hivdb/codfish:                           *)
(*   - iter_single_read_posnas (src/codfreq/posnas.py), the decomposition  *)
(*     of one read's aligned pairs into PosNA entries;                     *)
(*   - get_posnas_between / iter_posnas (src/codfreq/posnas.py), the       *)
(*     chunked scan on a process pool and its ordered merge;               *)
(*   - sam2codfreq (src/codfreq/sam2codfreq.py), the frequency aggregator. *)
(* Each part has its own specification over the shared variables; the      *)
(* variables of the other parts stay at their idle values.                 *)
(***************************************************************************)
EXTENDS Integers, Sequences, FiniteSets, TLC

VARIABLES
    \* ---- iter_single_read_posnas
    seq,            \* the read's sequence (SeqText), a sequence of characters
    aligned_pairs,  \* the read's aligned pairs, <<seqpos0, refpos0>> each
    posnas,         \* the list the call returned
    dpc,            \* "pairs": the arguments are being chosen; "returned"
    \* ---- iter_posnas and its pool of get_posnas_between workers
    samfile,        \* the alignment file: its records, in file order
    chunk_size,     \* iter_posnas' chunk_size
    workers,        \* iter_posnas' workers
    has_pbar,       \* whether log_format gave a progress bar
    chunks,         \* chunked_samfile's list of <<samfile_begin, samfile_end>>
    status,         \* per chunk: "pending", "running", "done", "failed", "cancelled"
    results,        \* per chunk: the list its get_posnas_between returned
    taken,          \* the chunks whose future the merge loop has consumed
    cur_chunk,      \* the chunk whose list the merge loop is yielding from
    cur_idx,        \* the next element of that list to yield
    yielded,        \* what iter_posnas yielded so far: [chunk, one]
    pbar_n,         \* the progress bar's counter
    finish_order,   \* the chunks in the order their futures finished
    spc,            \* "start", "mapping", "closed", "raised"
    \* ---- sam2codfreq
    codon_in,       \* the codon string of the next input tuple, while it is built
    consumed,       \* the (refpos, codon, qua) tuples read from the stream so far
    codonfreqs,     \* defaultdict(Counter), both in insertion order
    qualities,      \* defaultdict(lambda: defaultdict(list)), keyed <<refpos, codon>>
    rows,           \* the rows yielded so far
    translated,     \* the codons translate_codon was called with
    apc             \* "consuming", "emitting", "done", "failed", "raised"

decompVars == <<seq, aligned_pairs, posnas, dpc>>
scanVars == <<samfile, chunk_size, workers, has_pbar, chunks, status, results, taken,
              cur_chunk, cur_idx, yielded, pbar_n, finish_order, spc>>
aggVars == <<codon_in, consumed, codonfreqs, qualities, rows, translated, apc>>
vars == <<decompVars, scanVars, aggVars>>

(***************************************************************************)
(* Bounds of the model.                                                    *)
(***************************************************************************)
MaxPairs == 4
MaxRefIdx == 2
MaxReads == 3
MaxChunkSize == 2
MaxWorkers == 2
MaxTuples == 3
MaxCodonLen == 4

(***************************************************************************)
(* Values.                                                                 *)
(***************************************************************************)
\* Python's None in Optional[NAPos]; NAPos values are >= 0.
None == -1

\* GAP = ord(b'-')
GAP == 45

\* bytes(seq, ENCODING)[i] of a one-character string of the nucleotide
\* alphabet: its ASCII code.
Ord(c) ==
    CASE c = "A" -> 65
      [] c = "C" -> 67
      [] c = "G" -> 71
      [] c = "T" -> 84
      [] c = "N" -> 78
      [] c = "-" -> 45

\* seqchars: bytes = bytes(seq, ENCODING)
Encode(s) == [i \in 1..Len(s) |-> Ord(s[i])]

\* PosNA(pos, bp, na)
PosNA(pos, bp, na) == [pos |-> pos, bp |-> bp, na |-> na]

(***************************************************************************)
(* iter_single_read_posnas: the loop's local state is                      *)
(*   insidx, prev_refpos, buffer_size, posnas.                             *)
(***************************************************************************)
LoopInit == [insidx |-> 0, prev_refpos |-> 0, buffer_size |-> 0, posnas |-> <<>>]

\* LoopBody with the reference position left 0-based (refpos = refpos0).
LoopBodyZeroBased(st, seqchars, pair) ==
    LET seqpos0 == pair[1]
        refpos0 == pair[2]
        refpos  == IF refpos0 = None THEN st.prev_refpos ELSE refpos0
        insidx  == IF refpos0 = None THEN st.insidx + 1 ELSE 0
        prev    == IF refpos0 = None THEN st.prev_refpos ELSE refpos0
        n       == IF seqpos0 = None THEN GAP ELSE seqchars[seqpos0 + 1]
    IN  IF refpos = 0
        THEN [st EXCEPT !.insidx = insidx, !.prev_refpos = prev]
        ELSE [insidx |-> insidx,
              prev_refpos |-> prev,
              buffer_size |-> IF insidx > 0 THEN st.buffer_size + 1 ELSE 0,
              posnas |-> Append(st.posnas, PosNA(refpos, insidx, n))]

\* LoopBody with buffer_size reset only by a pair that has a read index
\* (a deletion after an insertion does not end the trailing run).
LoopBodyNoReset(st, seqchars, pair) ==
    LET seqpos0 == pair[1]
        refpos0 == pair[2]
        refpos  == IF refpos0 = None THEN st.prev_refpos ELSE refpos0 + 1
        insidx  == IF refpos0 = None THEN st.insidx + 1 ELSE 0
        prev    == IF refpos0 = None THEN st.prev_refpos ELSE refpos0 + 1
        n       == IF seqpos0 = None THEN GAP ELSE seqchars[seqpos0 + 1]
    IN  IF refpos = 0
        THEN [st EXCEPT !.insidx = insidx, !.prev_refpos = prev]
        ELSE [insidx |-> insidx,
              prev_refpos |-> prev,
              buffer_size |-> IF insidx > 0 \/ seqpos0 = None
                              THEN st.buffer_size + 1 ELSE 0,
              posnas |-> Append(st.posnas, PosNA(refpos, insidx, n))]

\* LoopBody with an insertion that follows a deletion numbered from the
\* deletion's own offset (insidx not reset by a pair without read index).
LoopBodyDelKeepsIdx(st, seqchars, pair) ==
    LET seqpos0 == pair[1]
        refpos0 == pair[2]
        refpos  == IF refpos0 = None \/ seqpos0 = None THEN st.prev_refpos ELSE refpos0 + 1
        insidx  == IF refpos0 = None \/ seqpos0 = None THEN st.insidx + 1 ELSE 0
        prev    == IF refpos0 = None \/ seqpos0 = None THEN st.prev_refpos ELSE refpos0 + 1
        n       == IF seqpos0 = None THEN GAP ELSE seqchars[seqpos0 + 1]
    IN  IF refpos = 0
        THEN [st EXCEPT !.insidx = insidx, !.prev_refpos = prev]
        ELSE [insidx |-> insidx,
              prev_refpos |-> prev,
              buffer_size |-> IF insidx > 0 THEN st.buffer_size + 1 ELSE 0,
              posnas |-> Append(st.posnas, PosNA(refpos, insidx, n))]

\* LoopBody without `if refpos == 0: continue`.
LoopBodyNoSkip(st, seqchars, pair) ==
    LET seqpos0 == pair[1]
        refpos0 == pair[2]
        refpos  == IF refpos0 = None THEN st.prev_refpos ELSE refpos0 + 1
        insidx  == IF refpos0 = None THEN st.insidx + 1 ELSE 0
        prev    == IF refpos0 = None THEN st.prev_refpos ELSE refpos0 + 1
        n       == IF seqpos0 = None THEN GAP ELSE seqchars[seqpos0 + 1]
    IN  [insidx |-> insidx,
         prev_refpos |-> prev,
         buffer_size |-> IF insidx > 0 THEN st.buffer_size + 1 ELSE 0,
         posnas |-> Append(st.posnas, PosNA(refpos, insidx, n))]

\* One iteration of `for seqpos0, refpos0 in aligned_pairs`.
LoopBody(st, seqchars, pair) ==
    LET seqpos0 == pair[1]
        refpos0 == pair[2]
        refpos  == IF refpos0 = None THEN st.prev_refpos ELSE refpos0 + 1
        insidx  == IF refpos0 = None THEN st.insidx + 1 ELSE 0
        prev    == IF refpos0 = None THEN st.prev_refpos ELSE refpos0 + 1
        n       == IF seqpos0 = None THEN GAP ELSE seqchars[seqpos0 + 1]
    IN  IF refpos = 0
        THEN \* insertion before the first ref position: continue
             [st EXCEPT !.insidx = insidx, !.prev_refpos = prev]
        ELSE [insidx |-> insidx,
              prev_refpos |-> prev,
              buffer_size |-> IF insidx > 0 THEN st.buffer_size + 1 ELSE 0,
              posnas |-> Append(st.posnas, PosNA(refpos, insidx, n))]

RECURSIVE Loop(_, _, _, _)
Loop(st, seqchars, pairs, i) ==
    IF i > Len(pairs) THEN st
    ELSE Loop(LoopBody(st, seqchars, pairs[i]), seqchars, pairs, i + 1)

\* The list returned whole (return posnas).
TrimNothing(list, buffer_size) == list

\* return posnas[:len(posnas) - buffer_size]
Trim(list, buffer_size) == SubSeq(list, 1, Len(list) - buffer_size)

iter_single_read_posnas(s, pairs) ==
    LET st == Loop(LoopInit, Encode(s), pairs, 1)
    IN  Trim(st.posnas, st.buffer_size)

(***************************************************************************)
(* The specification of the decomposer: the arguments are drawn from the   *)
(* bounded sets below, then the function is called once.                   *)
(***************************************************************************)
\* The sequences the reads of the model carry.
Seqs == {<<>>, <<"A">>, <<"A", "G">>, <<"G", "A">>}

\* The pairs get_aligned_pairs can name for a read with sequence s: a read
\* index of the sequence or None, a reference index or None.
PairsOf(s) == ((0..(Len(s) - 1)) \cup {None}) \X ((0..MaxRefIdx) \cup {None})

\* The variables of the scan while no scan runs.
ScanIdle ==
    /\ samfile = <<>>
    /\ chunk_size = 0
    /\ workers = 0
    /\ has_pbar = FALSE
    /\ chunks = <<>>
    /\ status = <<>>
    /\ results = <<>>
    /\ taken = {}
    /\ cur_chunk = 0
    /\ cur_idx = 0
    /\ yielded = <<>>
    /\ pbar_n = 0
    /\ finish_order = <<>>
    /\ spc = "idle"

\* The variables of the aggregator while no aggregation runs.
AggIdle ==
    /\ codon_in = <<>>
    /\ consumed = <<>>
    /\ codonfreqs = <<>>
    /\ qualities = <<>>
    /\ rows = <<>>
    /\ translated = <<>>
    /\ apc = "idle"

DecompInit ==
    /\ seq \in Seqs
    /\ aligned_pairs = <<>>
    /\ posnas = <<>>
    /\ dpc = "pairs"
    /\ ScanIdle
    /\ AggIdle

AddPair ==
    /\ dpc = "pairs"
    /\ Len(aligned_pairs) < MaxPairs
    /\ \E p \in PairsOf(seq) : aligned_pairs' = Append(aligned_pairs, p)
    /\ UNCHANGED <<seq, posnas, dpc>>
    /\ UNCHANGED <<scanVars, aggVars>>

Decompose ==
    /\ dpc = "pairs"
    /\ posnas' = iter_single_read_posnas(seq, aligned_pairs)
    /\ dpc' = "returned"
    /\ UNCHANGED <<seq, aligned_pairs>>
    /\ UNCHANGED <<scanVars, aggVars>>

DecompNext == AddPair \/ Decompose

SpecDecomp == DecompInit /\ [][DecompNext]_vars

(***************************************************************************)
(* What the claims about the decomposer speak of, stated on the arguments  *)
(* alone (not through the loop): which pairs are anchored, the run of      *)
(* unanchored pairs at the end, and the entry a pair stands for.           *)
(***************************************************************************)
NPairs == Len(aligned_pairs)
Anchored(i) == aligned_pairs[i][2] # None
HasAnchor == \E i \in 1..NPairs : Anchored(i)
\* The first anchored pair; the pairs before it have position 0 and are skipped.
FirstAnchor == CHOOSE i \in 1..NPairs : Anchored(i) /\ \A j \in 1..(i - 1) : ~Anchored(j)
\* The last anchored pair at or before pair i (i >= FirstAnchor).
AnchorOf(i) == CHOOSE a \in 1..i : Anchored(a) /\ \A j \in (a + 1)..i : ~Anchored(j)
\* The number of consecutive pairs with absent reference index at the end.
TrailingIns == Cardinality({i \in 1..NPairs : \A j \in i..NPairs : ~Anchored(j)})
\* The character pair i calls.
CalledNA(i) ==
    IF aligned_pairs[i][1] = None THEN Ord("-") ELSE Ord(seq[aligned_pairs[i][1] + 1])
\* The entry pair i stands for (i >= FirstAnchor).
EntryOf(i) ==
    [pos |-> aligned_pairs[AnchorOf(i)][2] + 1, bp |-> i - AnchorOf(i), na |-> CalledNA(i)]

\* C5. Trailing insertion trimming: the returned list never ends with an
\* entry of insertion offset > 0; when the pair list ends in k >= 1
\* consecutive pairs with absent reference index after the last anchored
\* pair, exactly those k entries are removed and every entry of the pairs
\* before them (from the first anchored pair on) is kept unchanged.
C5_TrailingTrim ==
    dpc = "returned" =>
        /\ (posnas # <<>> => posnas[Len(posnas)].bp = 0)
        /\ (HasAnchor /\ TrailingIns >= 1 =>
                posnas = [j \in 1..(NPairs - TrailingIns - FirstAnchor + 1)
                              |-> EntryOf(FirstAnchor + j - 1)])

\* A trailing insertion is dropped while an inner insertion is kept.
C5_Witness ==
    /\ dpc = "returned"
    /\ HasAnchor
    /\ TrailingIns >= 1
    /\ \E j \in 1..Len(posnas) : posnas[j].bp > 0

\* C6 as the spec states it. The pairs [(0,0),(1,None),(None,1)] with
\* sequence "AG" return exactly [(pos=1, off=0, 'A')].
C6_Original ==
    (/\ dpc = "returned"
     /\ seq = <<"A", "G">>
     /\ aligned_pairs = << <<0, 0>>, <<1, None>>, <<None, 1>> >>)
        => posnas = << PosNA(1, 0, Ord("A")) >>

\* C6, amended. The pairs [(0,0),(1,None),(None,1)] with sequence "AG"
\* return [(1,0,'A'), (1,1,'G'), (2,0,'-')]: the last pair is a deletion
\* anchored at position 2, so the insertion before it is not trailing.
C6_Example ==
    (/\ dpc = "returned"
     /\ seq = <<"A", "G">>
     /\ aligned_pairs = << <<0, 0>>, <<1, None>>, <<None, 1>> >>)
        => posnas = << PosNA(1, 0, Ord("A")), PosNA(1, 1, Ord("G")), PosNA(2, 0, Ord("-")) >>

C6_Witness ==
    /\ dpc = "returned"
    /\ seq = <<"A", "G">>
    /\ aligned_pairs = << <<0, 0>>, <<1, None>>, <<None, 1>> >>
    /\ Len(posnas) = 3

\* Every pair has a read index and a reference index, and the reference
\* indices increase by 1.
NoIndel ==
    /\ NPairs >= 1
    /\ \A i \in 1..NPairs : aligned_pairs[i][1] # None /\ aligned_pairs[i][2] # None
    /\ \A i \in 1..(NPairs - 1) : aligned_pairs[i + 1][2] = aligned_pairs[i][2] + 1

\* C7. With no insertion and no deletion, the returned list has one entry
\* per pair (the reference span), the positions are the consecutive values
\* ref_index + 1, the offsets are 0 and the nucleotides are the read
\* characters at the paired read indices.
C7_NoIndel ==
    (dpc = "returned" /\ NoIndel) =>
        /\ Len(posnas) = NPairs
        /\ Len(posnas) = aligned_pairs[NPairs][2] - aligned_pairs[1][2] + 1
        /\ \A i \in 1..NPairs :
              posnas[i] = PosNA(aligned_pairs[i][2] + 1, 0,
                                Ord(seq[aligned_pairs[i][1] + 1]))
        /\ \A i \in 1..(NPairs - 1) : posnas[i + 1].pos = posnas[i].pos + 1

C7_Witness ==
    /\ dpc = "returned"
    /\ NoIndel
    /\ NPairs >= 3
    /\ Len(posnas) = 3

\* C8. Deletion: every pair (None, r) has exactly one entry in the returned
\* list, the gap symbol at position r + 1 with offset 0, and the trailing
\* trim never removes it.
C8_Deletion ==
    dpc = "returned" =>
        /\ \A i \in 1..NPairs :
              (aligned_pairs[i][1] = None /\ aligned_pairs[i][2] # None) =>
                  /\ i - FirstAnchor + 1 \in 1..Len(posnas)
                  /\ posnas[i - FirstAnchor + 1] = PosNA(aligned_pairs[i][2] + 1, 0, GAP)
        /\ \A r \in 0..MaxRefIdx :
              Cardinality({j \in 1..Len(posnas) : posnas[j] = PosNA(r + 1, 0, GAP)})
                  = Cardinality({i \in 1..NPairs : aligned_pairs[i] = <<None, r>>})

\* The pair (None, 2) after an insertion, at the end of the list.
C8_Witness ==
    /\ dpc = "returned"
    /\ NPairs >= 3
    /\ aligned_pairs[NPairs] = <<None, 2>>
    /\ ~Anchored(NPairs - 1)
    /\ posnas[Len(posnas)] = PosNA(3, 0, GAP)

\* C10 as the spec states it. A pair list with a pair whose read index and
\* reference index are both absent is rejected: the call never returns a
\* list for it.
C10_MalformedRejected ==
    dpc = "returned" => \A i \in 1..NPairs : aligned_pairs[i] # <<None, None>>

(***************************************************************************)
(* The alignment file (pysam.AlignmentFile): a sequence of records.  The   *)
(* offset tell() returns after a record is the offset the next record      *)
(* starts at; offsets grow with the records' sizes.                        *)
(***************************************************************************)
AlignedSegment(name, s, pairs) ==
    [query_name |-> name, query_sequence |-> s, aligned_pairs |-> pairs]

\* The reads the files of the model are made of: a read, its mate (same
\* query name) with an insertion and a deletion, and a read without sequence.
ReadKinds ==
    { AlignedSegment("q1", <<"A", "G">>, << <<0, 0>>, <<1, 1>> >>),
      AlignedSegment("q1", <<"G", "A">>, << <<0, 1>>, <<1, None>>, <<None, 2>> >>),
      AlignedSegment("q2", <<>>, <<>>) }

\* The space a record takes in the file.
RecordSize(read) == 1 + Len(read.query_sequence) + Len(read.aligned_pairs)

\* samfp.tell() right after record k was read (k = 0: before the first).
RECURSIVE TellAfter(_, _)
TellAfter(file, k) ==
    IF k = 0 THEN 0 ELSE TellAfter(file, k - 1) + RecordSize(file[k])

\* samfp.seek(offset): the number of records that lie before the offset.
SeekRecord(file, offset) ==
    CHOOSE k \in 0..Len(file) : TellAfter(file, k) = offset

(***************************************************************************)
(* chunked_samfile(samfile, chunk_size): contiguous chunks of chunk_size   *)
(* records (the last may be smaller), each <<begin, end>> with end the     *)
(* offset right after its last record, which is the next chunk's begin.    *)
(***************************************************************************)
Min(a, b) == IF a <= b THEN a ELSE b

chunked_samfile(file, size) ==
    [c \in 1..((Len(file) + size - 1) \div size) |->
        <<TellAfter(file, (c - 1) * size), TellAfter(file, Min(c * size, Len(file)))>>]

(***************************************************************************)
(* get_posnas_between(samfile, samfile_start, samfile_end).  An element of *)
(* the returned list is (read.query_name, posnas); the model keeps with it *)
(* the index of the record it was read from (rec), which the code does not *)
(* store, to tell the reads of a file apart.                               *)
(***************************************************************************)
\* The loop leaves at the first record after which tell() is at or past the end.
PastEndInclusive(tell, samfile_end) == tell >= samfile_end

\* if samfp.tell() > samfile_end: break
PastEnd(tell, samfile_end) == tell > samfile_end

RECURSIVE ScanFrom(_, _, _, _)
ScanFrom(file, j, samfile_end, res) ==
    IF j > Len(file) THEN res
    ELSE IF PastEnd(TellAfter(file, j), samfile_end) THEN res
    ELSE IF file[j].query_sequence = <<>> THEN ScanFrom(file, j + 1, samfile_end, res)
    ELSE ScanFrom(file, j + 1, samfile_end,
                  Append(res, [rec |-> j,
                               query_name |-> file[j].query_name,
                               posnas |-> iter_single_read_posnas(
                                              file[j].query_sequence,
                                              file[j].aligned_pairs)]))

get_posnas_between(file, samfile_start, samfile_end) ==
    ScanFrom(file, SeekRecord(file, samfile_start) + 1, samfile_end, <<>>)

(***************************************************************************)
(* iter_posnas: executor.map submits one get_posnas_between call per chunk *)
(* to a pool of `workers` processes and hands the results back in the      *)
(* order of submission; the loop yields the elements of each list.         *)
(***************************************************************************)
\* The variables of the decomposer while the scan runs.
DecompIdle ==
    /\ seq = <<>>
    /\ aligned_pairs = <<>>
    /\ posnas = <<>>
    /\ dpc = "idle"

Files == UNION {[1..m -> ReadKinds] : m \in 0..MaxReads}

ScanInit ==
    /\ samfile \in Files
    /\ chunk_size \in 1..MaxChunkSize
    /\ workers \in 1..MaxWorkers
    /\ has_pbar \in BOOLEAN
    /\ chunks = <<>>
    /\ status = <<>>
    /\ results = <<>>
    /\ taken = {}
    /\ cur_chunk = 0
    /\ cur_idx = 0
    /\ yielded = <<>>
    /\ pbar_n = 0
    /\ finish_order = <<>>
    /\ spc = "start"
    /\ DecompIdle
    /\ AggIdle

\* chunks = chunked_samfile(samfile, chunk_size); executor.map(...) submits
\* every chunk.
Map ==
    /\ spc = "start"
    /\ chunks' = chunked_samfile(samfile, chunk_size)
    /\ status' = [c \in DOMAIN chunks' |-> "pending"]
    /\ results' = [c \in DOMAIN chunks' |-> <<>>]
    /\ spc' = "mapping"
    /\ UNCHANGED <<samfile, chunk_size, workers, has_pbar, taken, cur_chunk, cur_idx,
                   yielded, pbar_n, finish_order>>
    /\ UNCHANGED <<decompVars, aggVars>>

\* A free worker process takes the oldest pending call.
StartChunk(c) ==
    /\ spc \in {"mapping", "raised"}
    /\ status[c] = "pending"
    /\ \A b \in 1..(c - 1) : status[b] # "pending"
    /\ Cardinality({b \in DOMAIN status : status[b] = "running"}) < workers
    /\ status' = [status EXCEPT ![c] = "running"]
    /\ UNCHANGED <<samfile, chunk_size, workers, has_pbar, chunks, results, taken,
                   cur_chunk, cur_idx, yielded, pbar_n, finish_order, spc>>
    /\ UNCHANGED <<decompVars, aggVars>>

\* The worker's get_posnas_between call returns its list.
FinishChunk(c) ==
    /\ spc \in {"mapping", "raised"}
    /\ status[c] = "running"
    /\ status' = [status EXCEPT ![c] = "done"]
    /\ results' = [results EXCEPT
                      ![c] = get_posnas_between(samfile, chunks[c][1], chunks[c][2])]
    /\ finish_order' = Append(finish_order, c)
    /\ UNCHANGED <<samfile, chunk_size, workers, has_pbar, chunks, taken,
                   cur_chunk, cur_idx, yielded, pbar_n, spc>>
    /\ UNCHANGED <<decompVars, aggVars>>

\* The worker's get_posnas_between call raises (the file cannot be opened
\* or read): the call returns no list.
FailChunk(c) ==
    /\ spc \in {"mapping", "raised"}
    /\ status[c] = "running"
    /\ status' = [status EXCEPT ![c] = "failed"]
    /\ finish_order' = Append(finish_order, c)
    /\ UNCHANGED <<samfile, chunk_size, workers, has_pbar, chunks, results, taken,
                   cur_chunk, cur_idx, yielded, pbar_n, spc>>
    /\ UNCHANGED <<decompVars, aggVars>>

\* The chunks of a set, in ascending order.
Ascending(set) ==
    [i \in 1..Cardinality(set) |->
        CHOOSE c \in set : Cardinality({b \in set : b < c}) = i - 1]

\* A worker process dies while it runs a call: the pool is broken, and every
\* call that has not returned (running or not yet started) fails.
CrashWorker ==
    /\ spc \in {"mapping", "raised"}
    /\ \E c \in DOMAIN status : status[c] = "running"
    /\ status' = [c \in DOMAIN status |->
                      IF status[c] \in {"running", "pending"} THEN "failed" ELSE status[c]]
    /\ finish_order' = finish_order \o
                          Ascending({c \in DOMAIN status : status[c] \in {"running", "pending"}})
    /\ UNCHANGED <<samfile, chunk_size, workers, has_pbar, chunks, results, taken,
                   cur_chunk, cur_idx, yielded, pbar_n, spc>>
    /\ UNCHANGED <<decompVars, aggVars>>

\* The merge loop is between two lists: it has yielded every element of the
\* list it took last.
BetweenLists == IF cur_chunk = 0 THEN TRUE ELSE cur_idx > Len(results[cur_chunk])

\* The futures the loop would take although an earlier one is not finished.
TakeableAnyFinished(st, tk) ==
    {c \in DOMAIN st \ tk : st[c] \in {"done", "failed"}}

\* for posnas in executor.map(...): the next future in the order of
\* submission, once it has finished.
Takeable(st, tk) ==
    {c \in DOMAIN st : c = Cardinality(tk) + 1 /\ st[c] \in {"done", "failed"}}

\* The loop gets the next chunk's list.
NextResult ==
    /\ spc = "mapping"
    /\ BetweenLists
    /\ \E c \in Takeable(status, taken) :
          /\ status[c] = "done"
          /\ taken' = taken \cup {c}
          /\ cur_chunk' = c
          /\ cur_idx' = 1
    /\ UNCHANGED <<samfile, chunk_size, workers, has_pbar, chunks, status, results,
                   yielded, pbar_n, finish_order, spc>>
    /\ UNCHANGED <<decompVars, aggVars>>

\* The loop swallows the failure of the next chunk's call and goes on with
\* the chunk after it.
SkipFailedResult ==
    /\ spc = "mapping"
    /\ BetweenLists
    /\ \E c \in Takeable(status, taken) :
          /\ status[c] = "failed"
          /\ taken' = taken \cup {c}
    /\ UNCHANGED <<samfile, chunk_size, workers, has_pbar, chunks, status, results,
                   cur_chunk, cur_idx, yielded, pbar_n, finish_order, spc>>
    /\ UNCHANGED <<decompVars, aggVars>>

\* The next chunk's call raised: the exception leaves the loop and the
\* generator; the calls no worker has started are cancelled.
RaiseResult ==
    /\ spc = "mapping"
    /\ BetweenLists
    /\ \E c \in Takeable(status, taken) :
          /\ status[c] = "failed"
          /\ taken' = taken \cup {c}
    /\ status' = [c \in DOMAIN status |->
                      IF status[c] = "pending" THEN "cancelled" ELSE status[c]]
    /\ spc' = "raised"
    /\ UNCHANGED <<samfile, chunk_size, workers, has_pbar, chunks, results,
                   cur_chunk, cur_idx, yielded, pbar_n, finish_order>>
    /\ UNCHANGED <<decompVars, aggVars>>

\* yield one; pbar.update(1)   (or one step of `yield from posnas`)
Yield ==
    /\ spc = "mapping"
    /\ ~BetweenLists
    /\ yielded' = Append(yielded, [chunk |-> cur_chunk, one |-> results[cur_chunk][cur_idx]])
    /\ cur_idx' = cur_idx + 1
    /\ pbar_n' = IF has_pbar THEN pbar_n + 1 ELSE pbar_n
    /\ UNCHANGED <<samfile, chunk_size, workers, has_pbar, chunks, status, results,
                   taken, cur_chunk, finish_order, spc>>
    /\ UNCHANGED <<decompVars, aggVars>>

\* The loop ends after the last chunk's list; the pool shuts down and the
\* progress bar is closed.
Close ==
    /\ spc = "mapping"
    /\ BetweenLists
    /\ Cardinality(taken) = Len(chunks)
    /\ spc' = "closed"
    /\ UNCHANGED <<samfile, chunk_size, workers, has_pbar, chunks, status, results,
                   taken, cur_chunk, cur_idx, yielded, pbar_n, finish_order>>
    /\ UNCHANGED <<decompVars, aggVars>>

ScanNext ==
    \/ Map
    \/ \E c \in DOMAIN status : StartChunk(c)
    \/ \E c \in DOMAIN status : FinishChunk(c)
    \/ \E c \in DOMAIN status : FailChunk(c)
    \/ CrashWorker
    \/ NextResult
    \/ RaiseResult
    \/ Yield
    \/ Close

SpecScan == ScanInit /\ [][ScanNext]_vars

(***************************************************************************)
(* What the claims about the scan speak of, stated on the file and the     *)
(* chunk list alone.                                                       *)
(***************************************************************************)
Count(list, x) == Cardinality({i \in DOMAIN list : list[i] = x})
SameBag(a, b) ==
    \A x \in {a[i] : i \in DOMAIN a} \cup {b[i] : i \in DOMAIN b} : Count(a, x) = Count(b, x)
IsPrefix(a, b) == Len(a) <= Len(b) /\ \A i \in DOMAIN a : a[i] = b[i]

\* The (query_name, PosNA-list) pairs of a list of results.
NamePosnas(list) == [i \in DOMAIN list |-> <<list[i].query_name, list[i].posnas>>]
YieldedOnes == [i \in DOMAIN yielded |-> yielded[i].one]

\* The whole file scanned as one single chunk.
WholeFile == get_posnas_between(samfile, 0, TellAfter(samfile, Len(samfile)))

\* The chunk whose byte range holds record j.
ChunkOf(j) ==
    CHOOSE c \in DOMAIN chunks :
        chunks[c][1] <= TellAfter(samfile, j - 1) /\ TellAfter(samfile, j) <= chunks[c][2]

\* The reads with a sequence, in the file's native order, each with its chunk.
RECURSIVE NativeFrom(_)
NativeFrom(j) ==
    IF j > Len(samfile) THEN <<>>
    ELSE (IF samfile[j].query_sequence = <<>> THEN <<>>
          ELSE << [chunk |-> ChunkOf(j),
                   one |-> [rec |-> j,
                            query_name |-> samfile[j].query_name,
                            posnas |-> iter_single_read_posnas(
                                           samfile[j].query_sequence,
                                           samfile[j].aligned_pairs)]] >>)
         \o NativeFrom(j + 1)

\* C1. Chunking invariance: when iter_posnas has completed, for every
\* chunk size and worker count, the multiset of (query_name, PosNA-list)
\* pairs it yielded equals that of get_posnas_between run on the whole file
\* as one chunk, and every read with a non-empty sequence was yielded
\* exactly once.
C1_ChunkingInvariance ==
    spc = "closed" =>
        /\ SameBag(NamePosnas(YieldedOnes), NamePosnas(WholeFile))
        /\ \A j \in DOMAIN samfile :
              Cardinality({i \in DOMAIN yielded : yielded[i].one.rec = j})
                  = IF samfile[j].query_sequence = <<>> THEN 0 ELSE 1

\* Two workers, several chunks, the last one smaller, a read without
\* sequence in the file, and the scan complete.
C1_Witness ==
    /\ spc = "closed"
    /\ workers >= 2
    /\ Len(chunks) >= 2
    /\ Len(samfile) % chunk_size # 0
    /\ \E j \in DOMAIN samfile : samfile[j].query_sequence = <<>>
    /\ Len(yielded) >= 2

\* C2. Ordered merge: in every interleaving of the workers, what
\* iter_posnas has yielded is a prefix of one sequence fixed by the file and
\* the chunk list (the reads of chunk i in native order before any read of
\* chunk i+1, chunks in ascending start offset), it is that whole sequence
\* at completion, and no read is yielded while its chunk or an earlier
\* chunk is unfinished.
C2_OrderedMerge ==
    spc # "start" =>
        /\ IsPrefix(yielded, NativeFrom(1))
        /\ (spc = "closed" => yielded = NativeFrom(1))
        /\ \A i, j \in DOMAIN yielded :
              i < j => /\ yielded[i].chunk <= yielded[j].chunk
                       /\ yielded[i].one.rec < yielded[j].one.rec
        /\ \A c \in 1..(Len(chunks) - 1) : chunks[c][1] < chunks[c + 1][1]
        /\ \A i \in DOMAIN yielded : \A b \in 1..yielded[i].chunk : status[b] = "done"

\* A later chunk finished before an earlier one, and reads of both were
\* yielded by the time the scan completed.
C2_Witness ==
    /\ spc = "closed"
    /\ \E i, j \in DOMAIN finish_order : i < j /\ finish_order[i] > finish_order[j]
    /\ \E i, j \in DOMAIN yielded : yielded[i].chunk # yielded[j].chunk

\* The chunks whose scan failed.
FailedChunks == {c \in DOMAIN status : status[c] = "failed"}

\* C11. Chunk failure is fatal: once the scan of a chunk has failed (an
\* error in its call, or a crash of a worker), iter_posnas does not complete
\* normally; no read of a failed chunk and no read of a later chunk is
\* yielded (a chunk that has not returned has no list at all); and when
\* nothing is left to run, the failure has been raised to the consumer.
C11_ChunkFailureFatal ==
    /\ FailedChunks # {} => spc # "closed"
    /\ \A c \in FailedChunks : \A i \in DOMAIN yielded : yielded[i].chunk < c
    /\ \A c \in DOMAIN status : status[c] # "done" => results[c] = <<>>
    /\ (FailedChunks # {} /\ ~ENABLED ScanNext) => spc = "raised"
    /\ spc = "raised" => FailedChunks # {}

\* The second chunk failed and the failure was raised after the reads of
\* the first chunk were yielded.
C11_Witness ==
    /\ spc = "raised"
    /\ status[1] = "done"
    /\ status[2] = "failed"
    /\ yielded # <<>>
    /\ \A i \in DOMAIN yielded : yielded[i].chunk = 1

(***************************************************************************)
(* sam2codfreq.  A codon string is a sequence of characters.  codonfreqs   *)
(* is a sequence, in insertion order, of [refpos, codons], codons a        *)
(* sequence, in insertion order, of [codon, count]; qualities maps         *)
(* <<refpos, codon>> to the list of quality scores.  Quotients of integers *)
(* (count / total, sum(qua) / len(qua)) are kept exact, as reduced         *)
(* fractions <<numerator, denominator>>.                                   *)
(***************************************************************************)
RECURSIVE Gcd(_, _)
Gcd(a, b) == IF b = 0 THEN a ELSE Gcd(b, a % b)

\* Python's a / b on integers a >= 0, b >= 0; b = 0 raises ZeroDivisionError.
ZeroDivisionError == <<0, 0>>
Div(a, b) == IF b = 0 THEN ZeroDivisionError ELSE <<a \div Gcd(a, b), b \div Gcd(a, b)>>

RECURSIVE Sum(_)
Sum(list) == IF list = <<>> THEN 0 ELSE Head(list) + Sum(Tail(list))

\* The character class of CODON_PATTERN.
PatternChars == {"A", "C", "G", "T", "Y", "R", "W", "S", "K", "M", "B", "D", "H", "V", "N"}

\* CODON_PATTERN.match(codon) for r'^[ACGTYRWSKMBDHVN]{3}$': three characters
\* of the class, then the end of the string ($ also matches before a
\* newline that ends the string).
CODON_PATTERN_match(codon) ==
    /\ Len(codon) \in {3, 4}
    /\ \A i \in 1..3 : codon[i] \in PatternChars
    /\ Len(codon) = 4 => codon[4] = "\n"

\* The codon as one string.
RECURSIVE Str(_)
Str(codon) == IF codon = <<>> THEN "" ELSE Head(codon) \o Str(Tail(codon))

\* translate_codon(codon): the amino-acid symbol of the codon, left
\* uninterpreted.
translate_codon(codon) == "aa(" \o Str(codon) \o ")"

\* The if/elif chain without `not codon`: only '---' is a deletion.
ClassifyNoEmpty(codon) ==
    IF CODON_PATTERN_match(codon) THEN translate_codon(codon)
    ELSE IF codon = <<"-", "-", "-">> THEN "del"
    ELSE IF Len(codon) > 3 THEN "ins"
    ELSE "X"

\* The if/elif chain that sets aa.
Classify(codon) ==
    IF CODON_PATTERN_match(codon) THEN translate_codon(codon)
    ELSE IF codon = <<>> \/ codon = <<"-", "-", "-">> THEN "del"
    ELSE IF Len(codon) > 3 THEN "ins"
    ELSE "X"

\* counter[codon] = 1 in place of += 1.
IncrementSet(codons, codon) ==
    IF \E k \in DOMAIN codons : codons[k].codon = codon
    THEN [k \in DOMAIN codons |->
             IF codons[k].codon = codon
             THEN [codons[k] EXCEPT !.count = 1] ELSE codons[k]]
    ELSE Append(codons, [codon |-> codon, count |-> 1])

\* counter[codon] += 1 on a Counter kept in insertion order.
Increment(codons, codon) ==
    IF \E k \in DOMAIN codons : codons[k].codon = codon
    THEN [k \in DOMAIN codons |->
             IF codons[k].codon = codon
             THEN [codons[k] EXCEPT !.count = @ + 1] ELSE codons[k]]
    ELSE Append(codons, [codon |-> codon, count |-> 1])

\* qualities[refpos][codon] of the defaultdicts: a missing key is an empty list.
QuaOf(q, refpos, codon) ==
    IF <<refpos, codon>> \in DOMAIN q THEN q[<<refpos, codon>>] ELSE <<>>

\* The loop body with the quality list replaced, not appended to.
ConsumeTupleLastQua(st, t) ==
    LET refpos == t[1]
        codon  == t[2]
        qua    == t[3]
        cf     == st.codonfreqs
        q      == st.qualities
    IN  [codonfreqs |->
            IF \E i \in DOMAIN cf : cf[i].refpos = refpos
            THEN [i \in DOMAIN cf |->
                     IF cf[i].refpos = refpos
                     THEN [cf[i] EXCEPT !.codons = Increment(@, codon)] ELSE cf[i]]
            ELSE Append(cf, [refpos |-> refpos, codons |-> Increment(<<>>, codon)]),
         qualities |->
            [key \in DOMAIN q \cup {<<refpos, codon>>} |->
                IF key = <<refpos, codon>> THEN <<qua>> ELSE q[key]]]

\* codonfreqs[refpos][codon] += 1; qualities[refpos][codon].append(qua)
ConsumeTuple(st, t) ==
    LET refpos == t[1]
        codon  == t[2]
        qua    == t[3]
        cf     == st.codonfreqs
        q      == st.qualities
    IN  [codonfreqs |->
            IF \E i \in DOMAIN cf : cf[i].refpos = refpos
            THEN [i \in DOMAIN cf |->
                     IF cf[i].refpos = refpos
                     THEN [cf[i] EXCEPT !.codons = Increment(@, codon)] ELSE cf[i]]
            ELSE Append(cf, [refpos |-> refpos, codons |-> Increment(<<>>, codon)]),
         qualities |->
            [key \in DOMAIN q \cup {<<refpos, codon>>} |->
                IF key = <<refpos, codon>>
                THEN Append(QuaOf(q, refpos, codon), qua) ELSE q[key]]]

\* codonfreqs.items() left in insertion order.
Unsorted(items) == items

\* sorted(codonfreqs.items()): ascending refpos (the keys are distinct).
RECURSIVE Insert(_, _)
Insert(sorted, item) ==
    IF sorted = <<>> THEN <<item>>
    ELSE IF item.refpos < Head(sorted).refpos THEN <<item>> \o sorted
    ELSE <<Head(sorted)>> \o Insert(Tail(sorted), item)

RECURSIVE Sorted(_)
Sorted(items) ==
    IF items = <<>> THEN <<>>
    ELSE Insert(Sorted(SubSeq(items, 1, Len(items) - 1)), items[Len(items)])

\* total = len(codons): the number of distinct codons of the position.
TotalDistinct(codons) == Len(codons)

\* total = sum(codons.values())
Total(codons) == Sum([k \in DOMAIN codons |-> codons[k].count])

\* The dict that is yielded for one codon of one position.
Row(refpos, codons, k, q) ==
    [position |-> refpos,
     total |-> Total(codons),
     codon |-> codons[k].codon,
     aa |-> Classify(codons[k].codon),
     count |-> codons[k].count,
     percent |-> Div(codons[k].count, Total(codons)),
     mean_quality_score |->
         Div(Sum(QuaOf(q, refpos, codons[k].codon)),
             Len(QuaOf(q, refpos, codons[k].codon)))]

RECURSIVE Concat(_)
Concat(lists) == IF lists = <<>> THEN <<>> ELSE Head(lists) \o Concat(Tail(lists))

\* The rows of the two nested loops, in the order they are yielded.
AllRows(cf, q) ==
    LET items == Sorted(cf)
    IN  Concat([i \in DOMAIN items |->
                   [k \in DOMAIN items[i].codons |->
                       Row(items[i].refpos, items[i].codons, k, q)]])

(***************************************************************************)
(* The specification of the aggregator: tuples are read from the stream    *)
(* one by one; the stream ends or fails; the rows are yielded one by one.  *)
(***************************************************************************)
\* The codon strings, quality scores and reference positions of the stream's
\* tuples.
Codons == {<<"A", "T", "G">>, <<"-", "-", "-">>, <<"A", "T", "G", "A">>, <<"A", "T", "-">>}
Quals == {30, 40}
Positions == {100, 101}
Tuples == Positions \X Codons \X Quals

AggInit ==
    /\ codon_in = <<>>
    /\ consumed = <<>>
    /\ codonfreqs = <<>>
    /\ qualities = <<>>
    /\ rows = <<>>
    /\ translated = <<>>
    /\ apc = "consuming"
    /\ DecompIdle
    /\ ScanIdle

\* One iteration of the loops over iter_poscodons.
ConsumeStep(t) ==
    /\ consumed' = Append(consumed, t)
    /\ codonfreqs' = ConsumeTuple([codonfreqs |-> codonfreqs, qualities |-> qualities], t).codonfreqs
    /\ qualities' = ConsumeTuple([codonfreqs |-> codonfreqs, qualities |-> qualities], t).qualities

Consume ==
    /\ apc = "consuming"
    /\ Len(consumed) < MaxTuples
    /\ \E t \in Tuples : ConsumeStep(t)
    /\ UNCHANGED <<codon_in, rows, translated, apc>>
    /\ UNCHANGED <<decompVars, scanVars>>

\* The stream is exhausted: the first loop ends.
EndOfStream ==
    /\ apc = "consuming"
    /\ apc' = "emitting"
    /\ UNCHANGED <<codon_in, consumed, codonfreqs, qualities, rows, translated>>
    /\ UNCHANGED <<decompVars, scanVars>>

\* The stream raises and the rows of the tuples read so far are yielded
\* all the same.
StreamFailsFlush ==
    /\ apc = "consuming"
    /\ apc' = "failed"
    /\ rows' = AllRows(codonfreqs, qualities)
    /\ UNCHANGED <<codon_in, consumed, codonfreqs, qualities, translated>>
    /\ UNCHANGED <<decompVars, scanVars>>

\* The stream raises (the scan below it failed): the exception leaves
\* sam2codfreq.
StreamFails ==
    /\ apc = "consuming"
    /\ apc' = "failed"
    /\ UNCHANGED <<codon_in, consumed, codonfreqs, qualities, rows, translated>>
    /\ UNCHANGED <<decompVars, scanVars>>

\* The second loop runs to its next yield.
EmitRow ==
    /\ apc = "emitting"
    /\ Len(rows) < Len(AllRows(codonfreqs, qualities))
    /\ LET row == AllRows(codonfreqs, qualities)[Len(rows) + 1]
       IN  IF row.mean_quality_score = ZeroDivisionError
           THEN /\ apc' = "raised"
                /\ UNCHANGED <<rows, translated>>
           ELSE /\ rows' = Append(rows, row)
                /\ translated' = IF CODON_PATTERN_match(row.codon)
                                 THEN Append(translated, row.codon) ELSE translated
                /\ UNCHANGED apc
    /\ UNCHANGED <<codon_in, consumed, codonfreqs, qualities>>
    /\ UNCHANGED <<decompVars, scanVars>>

\* The second loop ends: the generator is exhausted.
EndOfRows ==
    /\ apc = "emitting"
    /\ Len(rows) = Len(AllRows(codonfreqs, qualities))
    /\ apc' = "done"
    /\ UNCHANGED <<codon_in, consumed, codonfreqs, qualities, rows, translated>>
    /\ UNCHANGED <<decompVars, scanVars>>

AggNext == Consume \/ EndOfStream \/ StreamFails \/ EmitRow \/ EndOfRows

SpecAgg == AggInit /\ [][AggNext]_vars

(***************************************************************************)
(* The specification of the classification: sam2codfreq run on a stream of *)
(* one tuple, whose codon is any string over CodonChars of up to           *)
(* MaxCodonLen characters.                                                 *)
(***************************************************************************)
\* Characters a codon string is made of: nucleotide codes, an ambiguity
\* code, the gap, and a character outside the pattern's class.
CodonChars == {"A", "T", "N", "-", "="}

GrowCodon ==
    /\ apc = "consuming"
    /\ consumed = <<>>
    /\ Len(codon_in) < MaxCodonLen
    /\ \E ch \in CodonChars : codon_in' = Append(codon_in, ch)
    /\ UNCHANGED <<consumed, codonfreqs, qualities, rows, translated, apc>>
    /\ UNCHANGED <<decompVars, scanVars>>

ConsumeBuilt ==
    /\ apc = "consuming"
    /\ consumed = <<>>
    /\ \E refpos \in Positions, qua \in Quals : ConsumeStep(<<refpos, codon_in, qua>>)
    /\ UNCHANGED <<codon_in, rows, translated, apc>>
    /\ UNCHANGED <<decompVars, scanVars>>

EndOfOneTuple == consumed # <<>> /\ EndOfStream

ClassifyNext == GrowCodon \/ ConsumeBuilt \/ EndOfOneTuple \/ EmitRow \/ EndOfRows

SpecClassify == AggInit /\ [][ClassifyNext]_vars

(***************************************************************************)
(* What the claims about the aggregator speak of.                          *)
(***************************************************************************)
\* sam2codfreq's accumulation over a whole list of tuples, and its rows.
RECURSIVE Feed(_, _)
Feed(st, list) == IF list = <<>> THEN st ELSE Feed(ConsumeTuple(st, Head(list)), Tail(list))
RowsFor(list) ==
    LET st == Feed([codonfreqs |-> <<>>, qualities |-> <<>>], list)
    IN  AllRows(st.codonfreqs, st.qualities)
RowSet(rs) == {rs[i] : i \in DOMAIN rs}
Permuted(list, p) == [i \in DOMAIN list |-> list[p[i]]]

\* C3. Frequency aggregator commutativity: the rows emitted for the
\* consumed tuples and the rows of every permutation of these tuples are
\* the same rows: as many, and the same set of (position, total, codon, aa,
\* count, percent, mean quality) records.
C3_Commutativity ==
    apc = "done" =>
        \A p \in Permutations(DOMAIN consumed) :
            LET other == RowsFor(Permuted(consumed, p))
            IN  /\ Len(other) = Len(rows)
                /\ RowSet(other) = RowSet(rows)

\* Three tuples: two of one (position, codon) with different qualities and
\* one of another codon.
C3_Witness ==
    /\ apc = "done"
    /\ Len(consumed) = 3
    /\ Len(rows) = 2
    /\ \E i \in DOMAIN rows : rows[i].count = 2 /\ rows[i].mean_quality_score = <<35, 1>>

\* Exact sums over the rows of one position.
RECURSIVE SumCount(_, _)
SumCount(rs, pos) ==
    IF rs = <<>> THEN 0
    ELSE (IF Head(rs).position = pos THEN Head(rs).count ELSE 0) + SumCount(Tail(rs), pos)
RatAdd(x, y) == Div(x[1] * y[2] + y[1] * x[2], x[2] * y[2])
RECURSIVE SumPercent(_, _)
SumPercent(rs, pos) ==
    IF rs = <<>> THEN <<0, 1>>
    ELSE IF Head(rs).position = pos
         THEN RatAdd(Head(rs).percent, SumPercent(Tail(rs), pos))
         ELSE SumPercent(Tail(rs), pos)

\* C4. Percent sums: the rows of one position carry the same total, the
\* total is the sum of their counts and the number of input tuples at the
\* position, percent is count / total, and the percents of the position
\* sum to exactly 1.
C4_PercentSums ==
    apc = "done" =>
        \A i \in DOMAIN rows :
            /\ \A j \in DOMAIN rows :
                  rows[j].position = rows[i].position => rows[j].total = rows[i].total
            /\ rows[i].total = SumCount(rows, rows[i].position)
            /\ rows[i].total =
                  Cardinality({k \in DOMAIN consumed : consumed[k][1] = rows[i].position})
            /\ rows[i].percent[1] * rows[i].total = rows[i].count * rows[i].percent[2]
            /\ SumPercent(rows, rows[i].position) = <<1, 1>>

\* A position with two codon rows of counts 2 and 1.
C4_Witness ==
    /\ apc = "done"
    /\ \E i, j \in DOMAIN rows :
          /\ rows[i].position = rows[j].position
          /\ rows[i].percent = <<2, 3>>
          /\ rows[j].percent = <<1, 3>>

\* The unambiguous-alphabet rule of the claim.
C9_Valid(c) ==
    /\ Len(c) = 3
    /\ \A i \in 1..3 :
          c[i] \in {"A", "C", "G", "T", "Y", "R", "W", "S", "K", "M", "B", "D", "H", "V", "N"}

\* C9. Classification: the row's aa is decided by the first rule that
\* applies: three characters of {A,C,G,T,Y,R,W,S,K,M,B,D,H,V,N} give the
\* translator's symbol, and the translator is called for such codons only;
\* the empty string and "---" give "del"; a longer codon gives "ins"; every
\* other codon gives "X".
C9_Classification ==
    apc = "done" /\ Len(consumed) = 1 =>
        /\ Len(rows) = 1
        /\ rows[1].codon = consumed[1][2]
        /\ rows[1].aa =
              (IF C9_Valid(rows[1].codon) THEN translate_codon(rows[1].codon)
               ELSE IF rows[1].codon \in {<<>>, <<"-", "-", "-">>} THEN "del"
               ELSE IF Len(rows[1].codon) > 3 THEN "ins"
               ELSE "X")
        /\ translated = (IF C9_Valid(rows[1].codon) THEN <<rows[1].codon>> ELSE <<>>)

\* The codon "AT-" was classified "X" without a call of the translator.
C9_Witness ==
    /\ apc = "done"
    /\ codon_in = <<"A", "T", "-">>
    /\ Len(rows) = 1
    /\ rows[1].aa = "X"
    /\ translated = <<>>

\* C12. No partial output: no row is emitted while the input stream is
\* being read or after it failed; a row is emitted only once the stream has
\* ended, and the rows emitted are rows of the whole stream.
C12_NoPartialOutput ==
    /\ apc \in {"consuming", "failed"} => rows = <<>>
    /\ rows # <<>> => /\ apc \in {"emitting", "done"}
                      /\ IsPrefix(rows, RowsFor(consumed))

\* The stream failed after two tuples were read, and nothing was emitted.
C12_Witness ==
    /\ apc = "failed"
    /\ Len(consumed) >= 2
    /\ rows = <<>>

\* The input tuples with a given position and codon, and the first of them.
Observations(pos, codon) ==
    {k \in DOMAIN consumed : consumed[k][1] = pos /\ consumed[k][2] = codon}
FirstSeen(pos, codon) ==
    CHOOSE k \in Observations(pos, codon) : \A m \in Observations(pos, codon) : k <= m

\* C13. Row set and order: there is exactly one row per distinct
\* (position, codon) pair of the input and no other row, its count is the
\* number of input tuples with that pair; rows come in ascending position
\* and, within a position, in the order in which the codons were first seen.
C13_RowSetAndOrder ==
    apc = "done" =>
        /\ \A k \in DOMAIN consumed :
              Cardinality({i \in DOMAIN rows :
                              /\ rows[i].position = consumed[k][1]
                              /\ rows[i].codon = consumed[k][2]}) = 1
        /\ \A i \in DOMAIN rows :
              /\ Observations(rows[i].position, rows[i].codon) # {}
              /\ rows[i].count = Cardinality(Observations(rows[i].position, rows[i].codon))
        /\ \A i, j \in DOMAIN rows :
              i < j =>
                  /\ rows[i].position <= rows[j].position
                  /\ rows[i].position = rows[j].position =>
                        FirstSeen(rows[i].position, rows[i].codon)
                            < FirstSeen(rows[j].position, rows[j].codon)

\* The higher position was seen first, and the lower position has two
\* codons.
C13_Witness ==
    /\ apc = "done"
    /\ Len(consumed) = 3
    /\ consumed[1][1] > consumed[2][1]
    /\ Len(rows) = 3
    /\ rows[1].position = rows[2].position
    /\ rows[3].position = consumed[1][1]

\* C14. Insertion anchoring: every returned position is >= 1, the pairs
\* with absent reference index before the first anchored pair produce no
\* entry, and every entry with offset k > 0 comes right after an entry of
\* the same position with offset k - 1, so the offsets after an anchored
\* position run 1, 2, 3, ... and restart at 0 at the next anchored pair.
C14_InsertionAnchoring ==
    dpc = "returned" =>
        /\ \A j \in DOMAIN posnas : posnas[j].pos >= 1 /\ posnas[j].bp >= 0
        /\ (~HasAnchor => posnas = <<>>)
        /\ (HasAnchor => Len(posnas) = NPairs - (FirstAnchor - 1) - TrailingIns)
        /\ (posnas # <<>> =>
                posnas[1] = PosNA(aligned_pairs[FirstAnchor][2] + 1, 0, CalledNA(FirstAnchor)))
        /\ \A j \in DOMAIN posnas :
              posnas[j].bp > 0 =>
                  /\ j > 1
                  /\ posnas[j - 1].pos = posnas[j].pos
                  /\ posnas[j - 1].bp = posnas[j].bp - 1
        /\ \A j \in DOMAIN posnas :
              posnas[j].bp = 0 =>
                  /\ Anchored(FirstAnchor + j - 1)
                  /\ posnas[j].pos = aligned_pairs[FirstAnchor + j - 1][2] + 1

\* An insertion before the first anchored pair is skipped, and one between
\* two anchored pairs is kept with offset 1.
C14_Witness ==
    /\ dpc = "returned"
    /\ NPairs = 4
    /\ ~Anchored(1)
    /\ Len(posnas) = 3
    /\ posnas[2].bp = 1
    /\ posnas[3].bp = 0

\* The quality scores of the input tuples with a given position and codon,
\* summed.
RECURSIVE SumQua(_, _, _)
SumQua(list, pos, codon) ==
    IF list = <<>> THEN 0
    ELSE (IF Head(list)[1] = pos /\ Head(list)[2] = codon THEN Head(list)[3] ELSE 0)
         + SumQua(Tail(list), pos, codon)

\* The (position, codon) pairs that have a count.
CountedKeys ==
    UNION {{<<codonfreqs[i].refpos, codonfreqs[i].codons[k].codon>> :
               k \in DOMAIN codonfreqs[i].codons} : i \in DOMAIN codonfreqs}

\* C15. Count/quality consistency: after every consumed tuple, every
\* (position, codon) with an entry has as many stored quality scores as its
\* stored count, at least 1; so no mean divides by zero, every emitted row
\* has count >= 1 and its mean is the sum of the quality scores of exactly
\* its count observations divided by count.  Two observations of "ATG" at
\* position 100 with qualities 30 and 40 give count 2, total 2 and mean 35.
C15_CountQuality ==
    /\ apc # "raised"
    /\ DOMAIN qualities = CountedKeys
    /\ \A i \in DOMAIN codonfreqs : \A k \in DOMAIN codonfreqs[i].codons :
          LET pos   == codonfreqs[i].refpos
              codon == codonfreqs[i].codons[k].codon
          IN  /\ codonfreqs[i].codons[k].count >= 1
              /\ Len(QuaOf(qualities, pos, codon)) = codonfreqs[i].codons[k].count
              /\ codonfreqs[i].codons[k].count = Cardinality(Observations(pos, codon))
    /\ \A i \in DOMAIN rows :
          /\ rows[i].count >= 1
          /\ rows[i].mean_quality_score # ZeroDivisionError
          /\ rows[i].mean_quality_score[1] * rows[i].count
                = SumQua(consumed, rows[i].position, rows[i].codon)
                    * rows[i].mean_quality_score[2]
    /\ (apc = "done" /\ consumed \in { << <<100, <<"A", "T", "G">>, 30>>, <<100, <<"A", "T", "G">>, 40>> >>,
                                       << <<100, <<"A", "T", "G">>, 40>>, <<100, <<"A", "T", "G">>, 30>> >> })
          => /\ Len(rows) = 1
             /\ rows[1].position = 100
             /\ rows[1].codon = <<"A", "T", "G">>
             /\ rows[1].count = 2
             /\ rows[1].total = 2
             /\ rows[1].percent = <<1, 1>>
             /\ rows[1].mean_quality_score = <<35, 1>>

\* "ATG" was observed at position 100 with qualities 30 and 40, and its row
\* was emitted.
C15_Witness ==
    /\ apc = "done"
    /\ consumed = << <<100, <<"A", "T", "G">>, 30>>, <<100, <<"A", "T", "G">>, 40>> >>
    /\ Len(rows) = 1
    /\ rows[1].count = 2

====
